---- MODULE Spec2Model ----
(***************************************************************************)
(* D-Scheduler: the date-row table (Range Store) and its JSON persistence  *)
(* (Persistence Adapter), modelled for the three variants of the program:  *)
(*   Memo  = src/カレンダーメモ帳.py          (oldest)                        *)
(*   Sched = src/D-Scheduler/d-scheduler.py                                *)
(*   Code  = src/D-Scheduler_Code/d-scheduler.py   (latest)                *)
(* Dates are proleptic Gregorian ordinals (datetime.date.toordinal()).     *)
(* The vertical scroll bar is modelled in row units (ScrollPerItem).       *)
(***************************************************************************)
EXTENDS Integers, Sequences, FiniteSets, TLC

Memo == "memo"
Sched == "sched"
Code == "code"
Variants == {Memo, Sched, Code}

Max2(a, b) == IF a >= b THEN a ELSE b
Min2(a, b) == IF a <= b THEN a ELSE b

-----------------------------------------------------------------------------
(* datetime.date arithmetic as the program uses it                          *)

MINYEAR == 1
MAXYEAR == 9999
MaxOrdinal == 3652059

IsLeap(y) == (y % 4 = 0) /\ ((y % 100 # 0) \/ (y % 400 = 0))

DaysBeforeYear(y) ==
    LET p == y - 1 IN (p * 365) + (p \div 4) - (p \div 100) + (p \div 400)

DaysInMonth(y, m) ==
    IF m = 2 THEN (IF IsLeap(y) THEN 29 ELSE 28)
    ELSE IF m \in {4, 6, 9, 11} THEN 30 ELSE 31

RECURSIVE DaysBeforeMonth(_, _)
DaysBeforeMonth(y, m) ==
    IF m <= 1 THEN 0 ELSE DaysBeforeMonth(y, m - 1) + DaysInMonth(y, m - 1)

\* date(y, m, d) raises ValueError outside these ranges
DateValid(y, m, d) ==
    /\ y >= MINYEAR /\ y <= MAXYEAR
    /\ m >= 1 /\ m <= 12
    /\ d >= 1 /\ d <= DaysInMonth(y, m)

\* date(y, m, d).toordinal()
Ymd2Ord(y, m, d) == DaysBeforeYear(y) + DaysBeforeMonth(y, m) + d

\* date + timedelta(days=n) raises OverflowError outside date.min..date.max
AddOverflows(o, n) == (o + n < 1) \/ (o + n > MaxOrdinal)

\* date.fromordinal(o).year
YearOf(o) ==
    LET n0 == o - 1
        n400 == n0 \div 146097
        r400 == n0 % 146097
        n100 == r400 \div 36524
        r100 == r400 % 36524
        n4 == r100 \div 1461
        r4 == r100 % 1461
        n1 == r4 \div 365
        y == (n400 * 400) + (n100 * 100) + (n4 * 4) + n1 + 1
    IN IF n1 = 4 \/ n100 = 4 THEN y - 1 ELSE y

\* date.fromordinal(o).month
MonthOf(o) ==
    LET y == YearOf(o)
        n == o - DaysBeforeYear(y)
    IN CHOOSE m \in 1..12 :
          DaysBeforeMonth(y, m) < n /\ n <= DaysBeforeMonth(y, m) + DaysInMonth(y, m)

\* date.fromordinal(o).day
DayOf(o) == o - DaysBeforeYear(YearOf(o)) - DaysBeforeMonth(YearOf(o), MonthOf(o))

-----------------------------------------------------------------------------
(* Keys of the cells mapping.  A key is a text; the model keeps of it       *)
(* whether it has the shape \d{4}-\d{2}-\d{2} (wf) and the three numbers.   *)

Key(y, m, d) == [wf |-> TRUE, y |-> y, m |-> m, d |-> d]
BadKey == [wf |-> FALSE, y |-> 0, m |-> 0, d |-> 0]

\* date_key(dt) / dt.strftime("%Y-%m-%d")
date_key(o) == Key(YearOf(o), MonthOf(o), DayOf(o))

\* re.fullmatch(r"\d{4}-\d{2}-\d{2}", k)
KeyMatchesRe(k) == k.wf

-----------------------------------------------------------------------------
(* JSON values found as cell texts, and str() of them                       *)

JStr(s) == [t |-> "str", s |-> s]
JNull == [t |-> "null", s |-> "None"]
JNum(s) == [t |-> "num", s |-> s]

\* repr(txt) in the place of str(txt): a text gains quotes at every load
CoerceTextRepr(v) == IF v.t = "null" THEN JStr("") ELSE JStr("'" \o v.s \o "'")

\* "" if txt is None else str(txt)
CoerceText(v) == IF v.t = "null" THEN JStr("") ELSE JStr(v.s)

\* an entry of "cells": a JSON object (isdict) holding col id -> value, or not
DictEntry(f) == [isdict |-> TRUE, f |-> f]
NonDictEntry == [isdict |-> FALSE, f |-> <<>>]

EmptyMap == <<>>

\* d[k] = v on a mapping kept as a TLA+ function
MapPut(f, k, v) == [x \in (DOMAIN f) \cup {k} |-> IF x = k THEN v ELSE f[x]]

\* del d[k]
MapDel(f, k) == [x \in (DOMAIN f) \ {k} |-> f[x]]

-----------------------------------------------------------------------------
(* Column definitions.  Identifiers and titles are texts kept as tuples of  *)
(* tokens, so that "cid + '-' + suffix" is a concatenation.                 *)

Col(id, title, width) == [id |-> id, title |-> title, width |-> width]

ColIds(cols) == {cols[i].id : i \in DOMAIN cols}

\* the columns CalendarApp.__init__ starts with
DefaultColumns ==
    << Col(<<"col-1">>, <<"yotei">>, 260), Col(<<"col-2">>, <<"memo">>, 260) >>

\* an item of a document's "columns" list: a JSON object (isdict) or not;
\* id/title <<>> stand for a missing, null or empty value; wkind tells whether
\* "width" is missing, converts with int(), or does not
RawCol(isdict, id, title, wkind, width) ==
    [isdict |-> isdict, id |-> id, title |-> title, wkind |-> wkind, width |-> width]

RawOfCol(c) == RawCol(TRUE, c.id, c.title, "int", c.width)

RECURSIVE RawOfCols(_)
RawOfCols(cols) ==
    IF cols = <<>> THEN <<>> ELSE <<RawOfCol(Head(cols))>> \o RawOfCols(Tail(cols))

\* uuid.uuid4(): the n-th identifier drawn in a run
UuidTok(n) == "u" \o ToString(n)

WidthDefault == 240
WidthMin == 80
WidthMax == 1200

\* the loop over cols_raw without the clamp of the width
RECURSIVE ValidateColsNoClamp(_, _)
ValidateColsNoClamp(raw, acc) ==
    IF raw = <<>> THEN acc
    ELSE LET c == Head(raw) IN
         IF ~c.isdict THEN ValidateColsNoClamp(Tail(raw), acc)
         ELSE LET gen == (c.id = <<>>)
                  cid0 == IF gen THEN <<UuidTok(acc.n + 1)>> ELSE c.id
                  n1 == IF gen THEN acc.n + 1 ELSE acc.n
                  dup == cid0 \in acc.seen
                  cid == IF dup THEN cid0 \o <<"-", UuidTok(n1 + 1)>> ELSE cid0
                  n2 == IF dup THEN n1 + 1 ELSE n1
                  title == IF c.title = <<>> THEN cid ELSE c.title
                  width == IF c.wkind = "int" THEN c.width ELSE WidthDefault
              IN ValidateColsNoClamp(Tail(raw),
                    [cols |-> Append(acc.cols, Col(cid, title, width)),
                     seen |-> acc.seen \cup {cid},
                     n |-> n2])

\* Code._load_json_path, the loop over cols_raw: acc = [cols, seen, n]
RECURSIVE ValidateCols(_, _)
ValidateCols(raw, acc) ==
    IF raw = <<>> THEN acc
    ELSE LET c == Head(raw) IN
         IF ~c.isdict THEN ValidateCols(Tail(raw), acc)
         ELSE LET gen == (c.id = <<>>)
                  cid0 == IF gen THEN <<UuidTok(acc.n + 1)>> ELSE c.id
                  n1 == IF gen THEN acc.n + 1 ELSE acc.n
                  dup == cid0 \in acc.seen
                  cid == IF dup THEN cid0 \o <<"-", UuidTok(n1 + 1)>> ELSE cid0
                  n2 == IF dup THEN n1 + 1 ELSE n1
                  title == IF c.title = <<>> THEN cid ELSE c.title
                  w0 == IF c.wkind = "int" THEN c.width ELSE WidthDefault
                  width == Max2(WidthMin, Min2(w0, WidthMax))
              IN ValidateCols(Tail(raw),
                    [cols |-> Append(acc.cols, Col(cid, title, width)),
                     seen |-> acc.seen \cup {cid},
                     n |-> n2])

\* Code._load_json_path, the inner loop over one entry of cells_raw
ValidateEntry(e) == DictEntry([c \in DOMAIN e.f |-> CoerceText(e.f[c])])

\* Code._load_json_path, the loop over cells_raw
ValidateCells(raw) ==
    LET keep == {k \in DOMAIN raw : KeyMatchesRe(k) /\ raw[k].isdict}
    IN [k \in keep |-> ValidateEntry(raw[k])]

-----------------------------------------------------------------------------
(* Documents: what a file holds.                                            *)

IntField(v) == [isint |-> TRUE, v |-> v]
NoField == [isint |-> FALSE, v |-> 0]

\* a JSON object with the fields the program reads
ObjDoc(hascols, colsislist, cols, hascells, cellsisdict, cells, y, m) ==
    [kind |-> "obj", hascols |-> hascols, colsislist |-> colsislist, cols |-> cols,
     hascells |-> hascells, cellsisdict |-> cellsisdict, cells |-> cells,
     year |-> y, month |-> m]

\* no file at the path
AbsentFile == [ObjDoc(FALSE, FALSE, <<>>, FALSE, FALSE, EmptyMap, NoField, NoField)
                  EXCEPT !.kind = "absent"]
\* a file json.load cannot parse (truncated or half-written text included)
GarbageFile == [AbsentFile EXCEPT !.kind = "garbage"]
\* valid JSON whose top level is not an object
NonObjFile == [AbsentFile EXCEPT !.kind = "nonobj"]
\* a file opened for writing and not completely written
PartialFile == [AbsentFile EXCEPT !.kind = "partial"]

-----------------------------------------------------------------------------
(* Inputs of the model: the dates, paths and documents the user works with  *)

K1 == Key(2025, 1, 5)
\* well-formed text, not a calendar date
K2 == Key(2025, 2, 30)

C1id == <<"col-1">>
C2id == <<"col-2">>
C9id == <<"col-9">>

\* year, month, both columns, one record
DocGood ==
    ObjDoc(TRUE, TRUE,
           << RawCol(TRUE, C1id, <<"yotei">>, "int", 260),
              RawCol(TRUE, C2id, <<"memo">>, "int", 260) >>,
           TRUE, TRUE, (K1 :> DictEntry((C1id :> JStr("meeting")) @@ (C2id :> JStr("note")))),
           IntField(2025), IntField(2))

\* no year/month; a column list needing repair; keys and values needing repair
DocMessy ==
    ObjDoc(TRUE, TRUE,
           << RawCol(TRUE, C1id, <<>>, "int", 5000),
              RawCol(FALSE, <<>>, <<>>, "missing", 0),
              RawCol(TRUE, C1id, <<"dup">>, "bad", 0),
              RawCol(TRUE, <<>>, <<"noid">>, "missing", 0) >>,
           TRUE, TRUE,
           (K1 :> DictEntry((C1id :> JNum("5")) @@ (C2id :> JNull)))
             @@ (K2 :> DictEntry(C1id :> JStr("x")))
             @@ (BadKey :> DictEntry(C1id :> JStr("y")))
             @@ (Key(2025, 1, 6) :> NonDictEntry),
           NoField, NoField)

\* "columns": [null] : no valid column
DocNoCols ==
    ObjDoc(TRUE, TRUE, << RawCol(FALSE, <<>>, <<>>, "missing", 0) >>,
           TRUE, TRUE, (K1 :> DictEntry(C1id :> JStr("lost"))),
           IntField(2025), IntField(3))

\* {"columns": [], "cells": 5} and {"columns": "x"}: no list of columns to
\* take a column from
DocColsEmpty ==
    ObjDoc(TRUE, TRUE, <<>>, TRUE, FALSE, EmptyMap, NoField, NoField)
DocColsNotList ==
    ObjDoc(TRUE, FALSE, <<>>, FALSE, FALSE, EmptyMap, NoField, NoField)

\* year 0: date(0, 1, 1) raises ValueError
DocYear0 ==
    ObjDoc(TRUE, TRUE, << RawCol(TRUE, C9id, <<"nine">>, "int", 300) >>,
           TRUE, TRUE, (K1 :> DictEntry(C9id :> JStr("z"))),
           IntField(0), IntField(1))

\* year 9999, month 12: date(9999, 12, 1) + 61 days raises OverflowError
DocYearMax ==
    ObjDoc(FALSE, FALSE, <<>>, FALSE, FALSE, EmptyMap, IntField(MAXYEAR), IntField(12))

\* documents no variant loads with success: their paths never become the
\* autosave path, so the program never writes to them
Fixtures ==
    ("nocols.json" :> DocNoCols) @@ ("year0.json" :> DocYear0)
      @@ ("emptycols.json" :> DocColsEmpty) @@ ("colsnotlist.json" :> DocColsNotList)
      @@ ("yearmax.json" :> DocYearMax)
      @@ ("garbage.json" :> GarbageFile) @@ ("array.json" :> NonObjFile)

\* the documents the two earlier variants, which adopt "columns" and "cells"
\* as they are, can hold in memory: every column a complete object, every
\* record an object of texts
PlainDoc(d) ==
    /\ d.kind = "obj"
    /\ d.hascols => /\ d.colsislist
                    /\ \A i \in DOMAIN d.cols :
                          d.cols[i].isdict /\ d.cols[i].wkind = "int" /\ d.cols[i].id # <<>>
    /\ d.hascells => /\ d.cellsisdict
                     /\ \A k \in DOMAIN d.cells :
                           /\ d.cells[k].isdict
                           /\ \A c \in DOMAIN d.cells[k].f : d.cells[k].f[c].t = "str"

DefaultAutosave == "default"
\* the path the user chooses in the save dialog, the documents it can hold
\* at startup, the paths the program can come to write, the paths the user
\* can choose in the open dialog
UserPaths == {"a.json"}
StartDocs == {DocGood, DocMessy}
Paths == {DefaultAutosave} \cup UserPaths

\* two columns under one id, as Sched and Memo write them after such a load
DocDup ==
    ObjDoc(TRUE, TRUE,
           << RawCol(TRUE, C1id, <<"first">>, "int", 260),
              RawCol(TRUE, C1id, <<"second">>, "int", 260) >>,
           TRUE, TRUE, (K1 :> DictEntry(C1id :> JStr("one"))),
           NoField, NoField)
OpenPaths == Paths \cup DOMAIN Fixtures

\* the dates the user edits and jumps to; Today is date.today()
Today == Ymd2Ord(2025, 1, 10)
JumpTargets == {Ymd2Ord(2025, 2, 15)}
EditDates == {Ymd2Ord(2025, 2, 20)}
EditTexts == {JStr("a")}
EditCols == {C1id}

-----------------------------------------------------------------------------
(* State                                                                     *)

VARIABLES
    variant,              \* which of the three programs runs
    range_start,          \* CalendarApp.range_start (ordinal)
    range_end,            \* CalendarApp.range_end
    current_anchor_date,  \* CalendarApp.current_anchor_date
    columns,              \* CalendarApp.columns
    settings_cols,        \* CalendarApp.settings["columns"]
    settings_file,        \* the document at SETTINGS_PATH
    settings_auto,        \* CalendarApp.settings: autosave_enabled, autosave_interval_sec
    autosave_timer,       \* CalendarApp._autosave_timer: isActive(), interval() in ms
    cells,                \* CalendarApp.cells : key -> entry
    dirty,                \* CalendarApp._dirty
    autosave_path,        \* CalendarApp.autosave_path
    expand_each,          \* CalendarApp.expand_each
    uuid_n,               \* how many uuid4() values were drawn
    table_rows,           \* table.rowCount()
    table_start,          \* the date row 0 was built for
    table_cols,           \* the column ids the rows' editors were built for
    table_built,          \* the rows hold items and editors (False after clear())
    sb_value,             \* verticalScrollBar().value(): the top visible row
    slider_down,          \* verticalScrollBar().isSliderDown()
    now_ms,               \* QDateTime.currentMSecsSinceEpoch()
    last_user_scroll_ms,  \* CalendarApp._last_user_scroll_ms, -1 before it is set
    files,                \* path -> document at that path
    tmpfiles,             \* path -> document at its ".tmp" sibling
    pc,                   \* "idle", or the handler that is inside _write_json
    pc_path,              \* the path that handler writes
    crashed,              \* an exception left a Qt slot unhandled
    ev                    \* what the last handler did (observation only)

vars == << variant, settings_auto, autosave_timer, range_start, range_end, current_anchor_date, columns,
           settings_cols, settings_file, cells,
           dirty, autosave_path, expand_each, uuid_n, table_rows, table_start,
           table_cols, table_built, sb_value, slider_down, now_ms, last_user_scroll_ms,
           files, tmpfiles, pc, pc_path, crashed, ev >>

winvars == << range_start, range_end, current_anchor_date >>
tablevars == << table_rows, table_start, table_cols, table_built, sb_value >>
clockvars == << now_ms, last_user_scroll_ms, slider_down >>
fsvars == << files, tmpfiles >>

\* the observation record: op = the handler that ran last, ok = its outcome
\* (a load that returned True, a write that completed), ext_user / ext_prog =
\* the extensions the scroll handler started in it on a value change caused
\* by the user / by the program
Ev(op, ok, xu, xp) == [op |-> op, ok |-> ok, ext_user |-> xu, ext_prog |-> xp]

SpanDays == 61
ExpandDefault == 60
EnsureChunk == 60

-----------------------------------------------------------------------------
(* _load_json_path                                                           *)

\* the part of the state _load_json_path reads and assigns
LoadState == [columns |-> columns, cells |-> cells, range_start |-> range_start,
              range_end |-> range_end, dirty |-> dirty, uuid_n |-> uuid_n]

\* the year/month block shared by the three variants; st has columns and cells
\* already assigned
LoadYearMonth(doc, st) ==
    LET y == doc.year
        m == doc.month
    IN IF y.isint /\ m.isint /\ 1 <= m.v /\ m.v <= 12
       THEN IF ~DateValid(y.v, m.v, 1)
            THEN [ok |-> FALSE, st |-> st]
            ELSE LET ms == Ymd2Ord(y.v, m.v, 1)
                     st1 == [st EXCEPT !.range_start = ms]
                 IN IF AddOverflows(ms, SpanDays)
                    THEN [ok |-> FALSE, st |-> st1]
                    ELSE [ok |-> TRUE,
                          st |-> [st1 EXCEPT !.range_end = ms + SpanDays,
                                             !.dirty = FALSE]]
       ELSE [ok |-> TRUE, st |-> [st EXCEPT !.dirty = FALSE]]

\* Code._load_json_path: validation, then adoption, then the year/month block
LoadCode(doc, st) ==
    IF doc.kind # "obj" THEN [ok |-> FALSE, st |-> st]
    ELSE LET cols_raw == IF doc.hascols THEN doc.cols ELSE RawOfCols(st.columns)
             islist == IF doc.hascols THEN doc.colsislist ELSE TRUE
             vc == IF islist
                   THEN ValidateCols(cols_raw, [cols |-> <<>>, seen |-> {}, n |-> st.uuid_n])
                   ELSE [cols |-> <<>>, seen |-> {}, n |-> st.uuid_n]
             cells_raw == IF doc.hascells THEN doc.cells ELSE st.cells
             isdict == IF doc.hascells THEN doc.cellsisdict ELSE TRUE
             newcells == IF isdict THEN ValidateCells(cells_raw) ELSE EmptyMap
         IN IF vc.cols = <<>>
            THEN [ok |-> FALSE, st |-> [st EXCEPT !.uuid_n = vc.n]]
            ELSE LoadYearMonth(doc, [st EXCEPT !.columns = vc.cols,
                                               !.cells = newcells,
                                               !.uuid_n = vc.n])

RECURSIVE ColsOfRaw(_)
ColsOfRaw(raw) ==
    IF raw = <<>> THEN <<>>
    ELSE << Col(Head(raw).id, Head(raw).title, Head(raw).width) >> \o ColsOfRaw(Tail(raw))

\* Sched/Memo._load_json_path: "columns" and "cells" adopted as they are
LoadPlain(doc, st) ==
    IF doc.kind # "obj" THEN [ok |-> FALSE, st |-> st]
    ELSE LoadYearMonth(doc,
            [st EXCEPT !.columns = IF doc.hascols THEN ColsOfRaw(doc.cols) ELSE @,
                       !.cells = IF doc.hascells THEN doc.cells ELSE @])

\* _load_json_path(path) of the running variant on the document at the path
LoadJsonPath(doc, st) ==
    IF variant = Code THEN LoadCode(doc, st) ELSE LoadPlain(doc, st)

-----------------------------------------------------------------------------
(* The settings document                                                     *)

\* what SETTINGS_PATH holds: nothing, text json.load rejects, JSON that is
\* not an object, or an object.  Of an object: "columns" (missing, a list of
\* column objects, or a number), "font_pt" (missing, a value int() converts,
\* or one it does not), "expand_days_each" and "autosave_path" ("" = missing)
SettingsObj(hascols, colslist, cols, font, expand, path) ==
    [kind |-> "obj", hascols |-> hascols, colslist |-> colslist, cols |-> cols,
     font |-> font, expand |-> expand, path |-> path]
SettingsAbsent == [SettingsObj(FALSE, FALSE, <<>>, "missing", NoField, "") EXCEPT !.kind = "absent"]
SettingsGarbage == [SettingsAbsent EXCEPT !.kind = "garbage"]
SettingsNonObj == [SettingsAbsent EXCEPT !.kind = "nonobj"]

\* _save_settings: settings["columns"] = self.columns, then json.dump of the
\* settings; "expand_days_each" is in them once on_applied has stored it
SaveSettings(cols, path, each) ==
    SettingsObj(TRUE, TRUE, cols, "int",
                IF variant = Code /\ each # ExpandDefault THEN IntField(each) ELSE NoField,
                path)

\* _load_settings: the parsed file, or the defaults when the file is absent
\* or json.load raises
LoadSettings(f) ==
    IF f.kind \in {"absent", "garbage"}
    THEN SettingsObj(TRUE, TRUE, DefaultColumns, "int", NoField, DefaultAutosave)
    ELSE f

\* _apply_settings_boot and the "self.autosave_path = Path(...)" after it: a
\* settings value without .get, int() of a text that is no number and list()
\* of a number raise
ApplySettingsBoot(s) ==
    IF s.kind # "obj" \/ s.font = "bad" \/ (s.hascols /\ ~s.colslist)
    THEN [exc |-> TRUE, columns |-> DefaultColumns, each |-> ExpandDefault,
          path |-> DefaultAutosave]
    ELSE [exc |-> FALSE,
          columns |-> IF s.hascols THEN s.cols ELSE DefaultColumns,
          each |-> IF variant = Code /\ s.expand.isint THEN s.expand.v ELSE ExpandDefault,
          path |-> IF s.path = "" THEN DefaultAutosave ELSE s.path]

\* _load_last_autosave: the candidates in order, fs the documents at the
\* paths; tried collects the paths _load_json_path was called with
RECURSIVE LoadLastAutosave(_, _, _, _)
LoadLastAutosave(cands, fs, st, tried) ==
    IF cands = <<>> THEN [st |-> st, tried |-> tried, loaded |-> ""]
    ELSE LET p == Head(cands) IN
         IF fs[p].kind = "absent" THEN LoadLastAutosave(Tail(cands), fs, st, tried)
         ELSE LET res == LoadJsonPath(fs[p], st)
              IN IF res.ok THEN [st |-> res.st, tried |-> Append(tried, p), loaded |-> p]
                 ELSE LoadLastAutosave(Tail(cands), fs, res.st, Append(tried, p))

-----------------------------------------------------------------------------
(* the autosave timer: _apply_autosave_settings and the dialogs' controls    *)

\* the floor of the interval, the default of "autosave_interval_sec", and the
\* factor from seconds to the milliseconds QTimer.setInterval takes
IntervalFloor == 3
IntervalDefault == 10
MsPerSec == 1000

\* QTimer.setInterval takes a C int: PyQt6 raises OverflowError above it
IntMax == 2147483647

\* the ranges of the interval spin boxes: SettingsDialog.sp_autosave of Code,
\* spin_interval of the two earlier variants
SpinMinCode == 5
SpinMinPlain == 3
SpinMax == 600

\* the two autosave keys _load_settings puts into fresh settings
AutoDefault == [enabled |-> TRUE, interval_sec |-> IntervalDefault]

\* QTimer(self) as constructed: not active, interval 0
TimerNew == [active |-> FALSE, interval |-> 0]

\* the timer part of _apply_autosave_settings; the variant without the floor
ApplyAutosaveNoFloor(cfg, t) ==
    IF cfg.enabled
    THEN IF cfg.interval_sec > IntMax \div MsPerSec \/ cfg.interval_sec < -(IntMax \div MsPerSec)
         THEN [exc |-> TRUE, timer |-> t]
         ELSE [exc |-> FALSE,
               timer |-> [active |-> TRUE, interval |-> cfg.interval_sec * MsPerSec]]
    ELSE [exc |-> FALSE, timer |-> [t EXCEPT !.active = FALSE]]

ApplyAutosaveSettings(cfg, t) ==
    IF cfg.enabled
    THEN \* if interval_sec < 3: interval_sec = 3
         LET interval_sec == IF cfg.interval_sec < IntervalFloor THEN IntervalFloor
                             ELSE cfg.interval_sec
         IN  IF interval_sec > IntMax \div MsPerSec
             THEN [exc |-> TRUE, timer |-> t]
             ELSE [exc |-> FALSE,
                   timer |-> [active |-> TRUE, interval |-> interval_sec * MsPerSec]]
    ELSE [exc |-> FALSE, timer |-> [t EXCEPT !.active = FALSE]]

\* QSpinBox.setValue clamps to the range of the box
SpinShown(sec) ==
    LET lo == IF variant = Code THEN SpinMinCode ELSE SpinMinPlain
    IN  IF sec < lo THEN lo ELSE IF sec > SpinMax THEN SpinMax ELSE sec

-----------------------------------------------------------------------------
(* The table and its vertical scroll bar.  Handlers are composed from       *)
(* operators on a record `a` of the fields they read and assign:            *)
(*   range_start, range_end, table_rows, table_start, table_cols,           *)
(*   table_built, sb_value : as the variables                               *)
(*   cols      : self.columns as the handler sees it                        *)
(*   last      : self._last_user_scroll_ms as the handler sees it           *)
(*   each      : self.expand_each as the handler sees it                    *)
(*   ext_user, ext_prog : extensions started by the scroll handler on a     *)
(*               value change caused by the user / by the program           *)
(*   exc       : an exception is propagating out of the handler             *)
(* valueChanged is delivered synchronously, so a scroll inside a handler    *)
(* runs the scroll handler nested in it unless the bar's signals are        *)
(* blocked.                                                                 *)

PageRows == 20
RefreshRate == 60
ExpireFloorMs == 80
ExpireFrames == 4
NearMinRows == 8
NearDivisor == 20
EdgePx == 120

ViewOf(cols, last) ==
    [range_start |-> range_start, range_end |-> range_end,
     table_rows |-> table_rows, table_start |-> table_start,
     table_cols |-> table_cols, table_built |-> table_built,
     sb_value |-> sb_value, cols |-> cols, last |-> last, each |-> expand_each,
     ext_user |-> 0, ext_prog |-> 0, exc |-> FALSE]

\* bar.maximum(): the rows that do not fit the viewport
SbMax(rows) == Max2(0, rows - PageRows)

\* table.rowAt(0), with the "if top_row < 0: top_row = 0" that follows it
TopRow(a) == IF a.table_rows > 0 THEN a.sb_value ELSE 0

CountExt(a, origin) ==
    IF origin = "user" THEN [a EXCEPT !.ext_user = @ + 1]
    ELSE [a EXCEPT !.ext_prog = @ + 1]

\* Code._on_scroll_action's expiry and the test of _on_scroll_extend_if_needed
UserScrollExpireMs == RefreshRate * ExpireFrames
OkUser(last) ==
    last >= 0 /\ (now_ms - last) <= Max2(ExpireFloorMs, UserScrollExpireMs)

\* the statements of a handler in sequence: v, the state the statements so
\* far have left, is computed once and F continues from it
Then(v, F(_)) == CHOOSE r \in {F(x) : x \in {v}} : TRUE

RECURSIVE OnScroll(_, _)
RECURSIVE ScrollToDate(_, _, _)
RECURSIVE RebuildRange(_, _, _, _, _)

\* bar.setValue(v): the handler runs when the value changes and signals pass
SetValue(a, v, blocked) ==
    IF v = a.sb_value THEN a
    ELSE IF blocked THEN [a EXCEPT !.sb_value = v]
    ELSE OnScroll([a EXCEPT !.sb_value = v], "program")

\* table.setRowCount(n): negative counts are ignored; the value is clamped
SetRowCount(a, n, blocked) ==
    IF n < 0 THEN a
    ELSE SetValue([a EXCEPT !.table_rows = n], Min2(a.sb_value, SbMax(n)), blocked)

\* table.scrollToItem(item(idx, 0), hint): PositionAtTop in Code,
\* PositionAtCenter in Sched and Memo
ScrollToItem(a, idx, blocked) ==
    LET mx == SbMax(a.table_rows)
        v == IF variant = Code THEN Min2(idx, mx)
             ELSE Max2(0, Min2(idx - (PageRows \div 2), mx))
    IN SetValue(a, v, blocked)

\* scroll_to_date(dt)
ScrollToDate(a, dt, blocked) ==
    IF a.exc \/ dt < a.range_start \/ dt > a.range_end THEN a
    ELSE LET idx == dt - a.range_start
         IN IF a.table_built /\ idx < a.table_rows
            THEN ScrollToItem(a, idx, blocked)
            ELSE a

\* rebuild_range(start, end, keep_scroll).  Code blocks the bar's signals
\* between _begin_table_update and _end_table_update and restores the
\* previous blocking after; Sched and Memo block nothing.
RebuildRange(a, start, end, keep_scroll, blocked) ==
    IF a.exc THEN a
    ELSE LET has_anchor == keep_scroll /\ a.table_rows > 0
             anchor_dt == a.range_start + TopRow(a)
             inner == IF variant = Code THEN TRUE ELSE blocked
             total_days == (end - start) + 1
             a1 == [a EXCEPT !.range_start = start, !.range_end = end,
                             !.table_built = FALSE]
         IN IF has_anchor /\ AddOverflows(a.range_start, TopRow(a))
            THEN [a EXCEPT !.exc = TRUE]
            ELSE Then(SetRowCount(a1, total_days, inner), LAMBDA a2 :
                 IF a2.exc THEN a2
                 ELSE IF total_days > 0 /\ AddOverflows(start, total_days)
                 THEN [a2 EXCEPT !.exc = TRUE]
                 ELSE IF total_days <= 0
                 THEN [a2 EXCEPT !.table_cols = ColIds(a.cols)]
                 ELSE IF has_anchor
                 THEN ScrollToDate([a2 EXCEPT !.table_built = TRUE, !.table_start = start,
                                              !.table_cols = ColIds(a.cols)],
                                   anchor_dt, blocked)
                 ELSE [a2 EXCEPT !.table_built = TRUE, !.table_start = start,
                                 !.table_cols = ColIds(a.cols)])

\* rebuild_all()
RebuildAll(a, blocked) == RebuildRange(a, a.range_start, a.range_end, TRUE, blocked)

\* set_view_anchor(anchor) with a window of 61 days, one day short
SetViewAnchorShort(a, anchor) ==
    IF AddOverflows(anchor, SpanDays - 1) THEN [a EXCEPT !.exc = TRUE]
    ELSE RebuildRange(a, anchor, anchor + SpanDays - 1, FALSE, FALSE)

\* set_view_anchor(anchor): the overflow of anchor + 61 days leaves the slot
SetViewAnchor(a, anchor) ==
    IF AddOverflows(anchor, SpanDays) THEN [a EXCEPT !.exc = TRUE]
    ELSE RebuildRange(a, anchor, anchor + SpanDays, FALSE, FALSE)

\* _append_days(n): Code blocks the signals for its duration
AppendDays(a, n) ==
    IF a.exc THEN a
    ELSE Then(SetRowCount(a, a.table_rows + n, variant = Code), LAMBDA a1 :
              IF a1.exc THEN a1
              ELSE IF AddOverflows(a1.range_end, n) THEN [a1 EXCEPT !.exc = TRUE]
              ELSE [a1 EXCEPT !.range_end = @ + n])

\* _prepend_days(n) building the new rows from range_start on, not from
\* range_start - n: every row then shows the date n days after its own
PrependDaysFromStart(a, n) ==
    IF a.exc THEN a
    ELSE LET blocked == (variant = Code)
             anchor_dt == a.range_start + TopRow(a)
             a1 == [a EXCEPT !.table_rows = @ + n]
         IN IF AddOverflows(a.range_start, TopRow(a)) THEN [a EXCEPT !.exc = TRUE]
            ELSE IF AddOverflows(a1.range_start, -n) THEN [a1 EXCEPT !.exc = TRUE]
            ELSE ScrollToDate([a1 EXCEPT !.range_start = @ - n], anchor_dt, blocked)

\* _prepend_days(n): rows inserted at the front, then the row that was on
\* top is scrolled back
PrependDays(a, n) ==
    IF a.exc THEN a
    ELSE LET blocked == (variant = Code)
             anchor_dt == a.range_start + TopRow(a)
             a1 == [a EXCEPT !.table_rows = @ + n]
         IN IF AddOverflows(a.range_start, TopRow(a)) THEN [a EXCEPT !.exc = TRUE]
            ELSE IF AddOverflows(a1.range_start, -n) THEN [a1 EXCEPT !.exc = TRUE]
            ELSE ScrollToDate([a1 EXCEPT !.range_start = @ - n,
                                         !.table_start = @ - n],
                              anchor_dt, blocked)

\* Code._append_days_auto(n)
AppendDaysAuto(a, n) ==
    IF AddOverflows(a.range_end, n) THEN [a EXCEPT !.exc = TRUE]
    ELSE RebuildRange(a, a.range_start, a.range_end + n, TRUE, TRUE)

\* Code._prepend_days_auto(n)
PrependDaysAuto(a, n) ==
    IF AddOverflows(a.range_start, -n) THEN [a EXCEPT !.exc = TRUE]
    ELSE RebuildRange(a, a.range_start - n, a.range_end, TRUE, TRUE)

\* Code._on_scroll_extend_if_needed
OnScrollCode(a, origin) ==
    LET mx == SbMax(a.table_rows)
        rng == mx - 0
        near == Max2(NearMinRows, rng \div NearDivisor)
    IN IF ~(OkUser(a.last) \/ slider_down) THEN a
       ELSE IF rng <= 0 THEN a
       ELSE IF a.sb_value >= mx - near
            THEN AppendDaysAuto(CountExt(a, origin), a.each)
       ELSE IF a.sb_value <= 0 + near
            THEN PrependDaysAuto(CountExt(a, origin), a.each)
       ELSE a

\* Sched/Memo._on_scroll_extend_if_needed: val and mx are read once, before
\* either extension runs
OnScrollPlain(a, origin) ==
    LET val == a.sb_value
        mx == SbMax(a.table_rows)
    IN Then(IF mx - val < EdgePx THEN AppendDays(CountExt(a, origin), ExpandDefault) ELSE a,
            LAMBDA a1 :
               IF val < EdgePx THEN PrependDays(CountExt(a1, origin), ExpandDefault) ELSE a1)

\* the slot connected to verticalScrollBar().valueChanged
OnScroll(a, origin) ==
    IF a.exc THEN a
    ELSE IF variant = Code THEN OnScrollCode(a, origin)
    ELSE OnScrollPlain(a, origin)

\* ensure_date_visible(target)
RECURSIVE EnsureDateVisible(_, _)
EnsureDateVisible(a, target) ==
    IF a.exc THEN a
    ELSE IF target < a.range_start
    THEN Then(PrependDays(a, EnsureChunk), LAMBDA b : EnsureDateVisible(b, target))
    ELSE IF target > a.range_end
    THEN Then(AppendDays(a, EnsureChunk), LAMBDA b : EnsureDateVisible(b, target))
    ELSE a

-----------------------------------------------------------------------------
(* Bounds of the model                                                       *)

MaxRows == 100
MaxDrift == 40
MaxUuid == 2
MaxNow == 250
TimeStep == 250

Idle == [op |-> "idle", stage |-> "idle"]
Pc(op, stage) == [op |-> op, stage |-> stage]

Running == pc = Idle /\ ~crashed

-----------------------------------------------------------------------------
(* Init: the state CalendarApp.__init__ leaves when no settings file and no *)
(* autosave file exist; the user has one document on disk.                  *)

InitStart ==
    IF variant = Code THEN Today
    ELSE Ymd2Ord(YearOf(Today), MonthOf(Today), 1)

Init ==
    /\ variant \in Variants
    /\ range_start = InitStart
    /\ range_end = InitStart + SpanDays
    /\ current_anchor_date = InitStart
    /\ columns = DefaultColumns
    /\ settings_cols = DefaultColumns
    /\ settings_file = SettingsAbsent
    /\ settings_auto = AutoDefault
    /\ autosave_timer = ApplyAutosaveSettings(AutoDefault, TimerNew).timer
    /\ cells = EmptyMap
    /\ dirty = FALSE
    /\ autosave_path = DefaultAutosave
    /\ expand_each = ExpandDefault
    /\ uuid_n = 0
    /\ table_rows = SpanDays + 1
    /\ table_start = InitStart
    /\ table_cols = ColIds(DefaultColumns)
    /\ table_built = TRUE
    /\ sb_value = 0
    /\ slider_down = FALSE
    /\ now_ms = 0
    /\ last_user_scroll_ms = -1
    /\ \E d \in StartDocs :
          /\ (variant # Code) => PlainDoc(d)
          /\ files = [p \in Paths |-> IF p \in UserPaths THEN d ELSE AbsentFile]
    /\ tmpfiles = [p \in Paths |-> AbsentFile]
    /\ pc = Idle
    /\ pc_path = DefaultAutosave
    /\ crashed = FALSE
    /\ ev = Ev("init", TRUE, 0, 0)

\* the assignments a handler makes to the window and the table
StoreView(a) ==
    /\ range_start' = a.range_start
    /\ range_end' = a.range_end
    /\ table_rows' = a.table_rows
    /\ table_start' = a.table_start
    /\ table_cols' = a.table_cols
    /\ table_built' = a.table_built
    /\ sb_value' = a.sb_value
    /\ crashed' = a.exc

-----------------------------------------------------------------------------
(* Scrolling and the clock                                                   *)

\* the positions a user scrolls to: the two ends and the middle
ScrollStops(rows) ==
    {0, SbMax(rows) \div 2, SbMax(rows)}

\* a wheel, key or drag action on the scroll bar: actionTriggered (recorded by
\* Code._on_scroll_action), then valueChanged
UserScroll(v) ==
    /\ Running
    /\ table_rows <= MaxRows
    /\ Today - range_start <= MaxDrift /\ range_start - Today <= MaxDrift
    /\ v \in ScrollStops(table_rows) /\ v # sb_value
    /\ \E last \in {IF variant = Code THEN now_ms ELSE last_user_scroll_ms} :
       \E a \in {OnScroll([ViewOf(columns, last) EXCEPT !.sb_value = v], "user")} :
          /\ last_user_scroll_ms' = last
          /\ StoreView(a)
          /\ ev' = Ev("scroll", TRUE, a.ext_user, a.ext_prog)
    /\ UNCHANGED << variant, settings_auto, autosave_timer, current_anchor_date, columns, settings_cols, settings_file, cells, dirty,
                    autosave_path, expand_each, uuid_n, slider_down, now_ms, files, tmpfiles,
                    pc, pc_path >>

\* time passes between two events
AdvanceTime ==
    /\ Running
    /\ now_ms + TimeStep <= MaxNow
    /\ now_ms' = now_ms + TimeStep
    /\ UNCHANGED << variant, settings_auto, autosave_timer, winvars, columns, settings_cols, settings_file, cells, dirty, autosave_path,
                    expand_each, uuid_n, tablevars, slider_down, last_user_scroll_ms, files, tmpfiles,
                    pc, pc_path, crashed, ev >>

-----------------------------------------------------------------------------
(* Jumps                                                                     *)

\* the date MonthPickerDialog._apply_and_close jumps to when the day t is
\* selected in the calendar: Code and Sched take the day, Memo the first day
\* of its month
JumpTarget(t) ==
    IF variant = Memo THEN Ymd2Ord(YearOf(t), MonthOf(t), 1) ELSE t

\* MonthPickerDialog._apply_and_close: Code and Sched call set_view_anchor,
\* Memo calls rebuild_range itself
JumpToDate(t) ==
    /\ Running
    /\ t \in JumpTargets
    /\ \E a0 \in {ViewOf(columns, last_user_scroll_ms)}, ms \in {JumpTarget(t)} :
       \E a \in {IF variant = Memo
                 THEN (IF AddOverflows(ms, SpanDays) THEN [a0 EXCEPT !.exc = TRUE]
                       ELSE RebuildRange(a0, ms, ms + SpanDays, FALSE, FALSE))
                 ELSE SetViewAnchor(a0, t)} :
          /\ StoreView(a)
          /\ current_anchor_date' = IF variant = Memo THEN current_anchor_date ELSE t
          /\ ev' = Ev("jump", TRUE, a.ext_user, a.ext_prog)
    /\ UNCHANGED << variant, settings_auto, autosave_timer, columns, settings_cols, settings_file, cells, dirty, autosave_path, expand_each,
                    uuid_n,
                    clockvars, files, tmpfiles, pc, pc_path >>

\* MonthPickerDialog._jump_today (Code and Sched; Memo has no such button);
\* Code scrolls to the day once more after the rebuild
JumpToday ==
    /\ Running
    /\ variant # Memo
    /\ \E a0 \in {ViewOf(columns, last_user_scroll_ms)} :
       \E a1 \in {SetViewAnchor(a0, Today)} :
       \E a \in {IF variant = Code THEN ScrollToDate(a1, Today, FALSE) ELSE a1} :
          /\ StoreView(a)
          /\ current_anchor_date' = Today
          /\ ev' = Ev("today", TRUE, a.ext_user, a.ext_prog)
    /\ UNCHANGED << variant, settings_auto, autosave_timer, columns, settings_cols, settings_file, cells, dirty, autosave_path, expand_each,
                    uuid_n,
                    clockvars, files, tmpfiles, pc, pc_path >>


\* the dates a search lists: records with a non-empty text under a current
\* column whose key is a calendar date (SearchDialog._do_search, "all")
HasText(e) ==
    e.isdict /\ \E i \in DOMAIN columns :
        columns[i].id \in DOMAIN e.f /\ e.f[columns[i].id].s # ""
SearchHits ==
    {k \in DOMAIN cells : DateValid(k.y, k.m, k.d) /\ HasText(cells[k])}

\* SearchDialog._jump_and_close: Code and Sched anchor the day found, Memo
\* extends the window until it holds the day and scrolls to it
SearchJump(k) ==
    /\ Running
    /\ k \in SearchHits
    /\ table_rows <= MaxRows
    /\ range_start - Ymd2Ord(k.y, k.m, k.d) <= MaxRows
    /\ Ymd2Ord(k.y, k.m, k.d) - range_end <= MaxRows
    /\ \E t \in {Ymd2Ord(k.y, k.m, k.d)}, a0 \in {ViewOf(columns, last_user_scroll_ms)} :
       \E a1 \in {IF variant = Memo THEN EnsureDateVisible(a0, t) ELSE SetViewAnchor(a0, t)} :
       \E a \in {IF variant = Memo THEN ScrollToDate(a1, t, FALSE) ELSE a1} :
          /\ StoreView(a)
          /\ current_anchor_date' = IF variant = Memo THEN current_anchor_date ELSE t
          /\ ev' = Ev("search", TRUE, a.ext_user, a.ext_prog)
    /\ UNCHANGED << variant, settings_auto, autosave_timer, columns, settings_cols, settings_file, cells, dirty, autosave_path, expand_each,
                    uuid_n,
                    clockvars, files, tmpfiles, pc, pc_path >>

-----------------------------------------------------------------------------
(* Editing                                                                   *)

\* self.cells.setdefault(k, {})[col_id] = text
CellsPut(cs, k, cid, txt) ==
    LET old == IF k \in DOMAIN cs THEN cs[k].f ELSE EmptyMap
    IN MapPut(cs, k, DictEntry(MapPut(old, cid, txt)))

\* _build_row.make_slot._slot: the user changes the text of the editor of
\* row r and column cid; key and column were captured when the row was built
EditCell(r, cid, txt) ==
    /\ Running
    /\ table_built /\ r >= 0 /\ r < table_rows
    /\ cid \in table_cols \cap EditCols
    /\ txt \in EditTexts
    /\ cells' = CellsPut(cells, date_key(table_start + r), cid, txt)
    /\ dirty' = TRUE
    /\ ev' = Ev("edit", TRUE, 0, 0)
    /\ UNCHANGED << variant, settings_auto, autosave_timer, winvars, columns, settings_cols, settings_file, autosave_path, expand_each,
                    uuid_n,
                    tablevars, clockvars, files, tmpfiles, pc, pc_path, crashed >>

-----------------------------------------------------------------------------
(* Column deletion                                                           *)

\* the columns without the i-th
RemoveAt(cols, i) == [j \in 1..(Len(cols) - 1) |-> IF j < i THEN cols[j] ELSE cols[j + 1]]

\* Sched/Memo SettingsDialog._remove_selected_col, the loop over cells
CascadeDelete(cs, cid) ==
    [k \in DOMAIN cs |->
        IF cs[k].isdict /\ cid \in DOMAIN cs[k].f
        THEN DictEntry(MapDel(cs[k].f, cid)) ELSE cs[k]]

\* Sched/Memo SettingsDialog._remove_selected_col on the i-th column
RemoveSelectedCol(i) ==
    /\ Running
    /\ variant # Code
    /\ i \in DOMAIN columns
    /\ table_rows <= MaxRows
    /\ \E cols \in {RemoveAt(columns, i)} :
       \E a0 \in {ViewOf(cols, last_user_scroll_ms)} :
       \E a \in {RebuildAll(a0, FALSE)} :
          /\ cells' = CascadeDelete(cells, columns[i].id)
          /\ columns' = cols
          /\ settings_cols' = cols
          /\ settings_file' = SaveSettings(cols, autosave_path, expand_each)
          /\ StoreView(a)
          /\ dirty' = TRUE
          /\ ev' = Ev("delcol", TRUE, a.ext_user, a.ext_prog)
    /\ UNCHANGED << variant, settings_auto, autosave_timer, current_anchor_date, autosave_path, expand_each, uuid_n,
                    clockvars, files, tmpfiles, pc, pc_path >>

\* the values of the settings dialog's "expand days" spin box the user applies
ExpandChoices == {30}

\* Code: SettingsDialog._on_apply after do_del on the rows in `gone` (the
\* dialog lists settings["columns"]), then CalendarApp.open_settings.on_applied
SettingsApply(gone, n, sec) ==
    /\ Running
    /\ variant = Code
    /\ sec \in SpinMinCode .. SpinMax
    /\ gone \subseteq DOMAIN settings_cols /\ Cardinality(gone) <= 1
    /\ n \in ExpandChoices
    /\ table_rows <= MaxRows
    /\ range_start - range_end <= MaxRows
    /\ \E cols \in {IF gone = {} THEN settings_cols
                     ELSE RemoveAt(settings_cols, CHOOSE i \in gone : TRUE)} :
       \E a0 \in {[ViewOf(cols, last_user_scroll_ms) EXCEPT !.each = n]} :
       \E top_anchor \in {IF AddOverflows(a0.range_start, TopRow(a0)) THEN a0.range_start
                           ELSE a0.range_start + TopRow(a0)} :
       \E a1 \in {RebuildAll(a0, FALSE)} :
       \E a2 \in {EnsureDateVisible(a1, top_anchor)} :
       \E a \in {ScrollToDate(a2, top_anchor, FALSE)} :
          /\ columns' = cols
          /\ settings_cols' = cols
          /\ settings_file' = SaveSettings(cols, autosave_path, n)
          /\ expand_each' = n
          /\ settings_auto' = [settings_auto EXCEPT !.interval_sec = sec]
          /\ autosave_timer' = IF a.exc THEN autosave_timer
                                ELSE ApplyAutosaveSettings(settings_auto', autosave_timer).timer
          /\ StoreView(a)
          /\ ev' = Ev(IF gone = {} THEN "apply" ELSE "delcol", TRUE, a.ext_user, a.ext_prog)
    /\ UNCHANGED << variant, current_anchor_date, cells, dirty, autosave_path, uuid_n,
                    clockvars, files, tmpfiles, pc, pc_path >>

-----------------------------------------------------------------------------
(* load_json                                                                 *)

\* the document a reader finds at path p
FileAt(p) == IF p \in Paths THEN files[p] ELSE Fixtures[p]

\* load_json with the path the file dialog returned: _load_json_path, and on
\* True the rebuild of 62 days from range_start
LoadJson(p) ==
    /\ Running
    /\ p \in OpenPaths
    /\ FileAt(p).kind # "absent"
    /\ (variant # Code /\ FileAt(p).kind = "obj") => PlainDoc(FileAt(p))
    /\ \E res \in {LoadJsonPath(FileAt(p), LoadState)} :
       \E st \in {res.st} :
       \E a0 \in {[ViewOf(st.columns, last_user_scroll_ms)
                     EXCEPT !.range_start = st.range_start, !.range_end = st.range_end]} :
       \E a \in {IF ~res.ok THEN a0
                 ELSE IF AddOverflows(st.range_start, SpanDays) THEN [a0 EXCEPT !.exc = TRUE]
                 ELSE RebuildRange(a0, st.range_start, st.range_start + SpanDays, FALSE, FALSE)} :
       \E done \in {res.ok /\ ~a.exc} :
          /\ st.uuid_n <= MaxUuid
          /\ columns' = st.columns
          /\ cells' = st.cells
          /\ uuid_n' = st.uuid_n
          /\ dirty' = st.dirty
          /\ StoreView(a)
          /\ autosave_path' = IF done THEN p ELSE autosave_path
          /\ settings_cols' = IF done THEN st.columns ELSE settings_cols
          /\ settings_file' = IF done THEN SaveSettings(st.columns, p, expand_each)
                               ELSE settings_file
          /\ current_anchor_date' =
                IF done /\ variant # Memo THEN a.range_start ELSE current_anchor_date
          /\ ev' = Ev("load", res.ok, a.ext_user, a.ext_prog)
    /\ UNCHANGED << variant, settings_auto, autosave_timer, expand_each, clockvars, files, tmpfiles, pc, pc_path >>

-----------------------------------------------------------------------------
(* the autosave controls of the settings dialog of the two earlier variants  *)

\* the values the interval spin box is set to
SpinStops == {SpinMinPlain, SpinMinCode, SpinMax}

\* SettingsDialog._on_autosave_toggle(on)
OnAutosaveToggle(on) ==
    /\ Running
    /\ variant # Code
    /\ settings_auto' = [settings_auto EXCEPT !.enabled = on]
    /\ \E t \in {ApplyAutosaveSettings(settings_auto', autosave_timer)} :
          /\ autosave_timer' = t.timer
          /\ crashed' = t.exc
          /\ settings_file' = IF t.exc THEN settings_file
                               ELSE SaveSettings(settings_cols, autosave_path, expand_each)
          /\ ev' = Ev("toggle", ~t.exc, 0, 0)
    /\ UNCHANGED << variant, winvars, columns, settings_cols, cells, dirty, autosave_path,
                    expand_each, uuid_n, tablevars, clockvars, fsvars, pc, pc_path >>

\* SettingsDialog._on_interval_change(v): valueChanged of spin_interval
OnIntervalChange(v) ==
    /\ Running
    /\ variant # Code
    /\ v \in SpinMinPlain .. SpinMax
    /\ v # SpinShown(settings_auto.interval_sec)
    /\ settings_auto' = [settings_auto EXCEPT !.interval_sec = v]
    /\ autosave_timer' = ApplyAutosaveSettings(settings_auto', autosave_timer).timer
    /\ settings_file' = SaveSettings(settings_cols, autosave_path, expand_each)
    /\ ev' = Ev("interval", TRUE, 0, 0)
    /\ UNCHANGED << variant, winvars, columns, settings_cols, cells, dirty, autosave_path,
                    expand_each, uuid_n, tablevars, clockvars, fsvars, pc, pc_path, crashed >>

-----------------------------------------------------------------------------
(* CalendarApp.__init__                                                      *)

BootHalfSpan == 31
Boot == [op |-> "boot", stage |-> "boot"]

\* the documents the two paths can hold at launch
BootDocs == {AbsentFile, GarbageFile, DocGood, DocYear0, DocDup}

\* the settings documents SETTINGS_PATH can hold at launch: none, the three
\* kinds that are no settings object, "font_pt": "x", "columns": 5, a
\* document of the user's, and one with two columns under one id
BootSettings ==
    {SettingsAbsent, SettingsGarbage, SettingsNonObj,
     SettingsObj(TRUE, TRUE, DefaultColumns, "bad", NoField, DefaultAutosave),
     SettingsObj(TRUE, FALSE, <<>>, "int", NoField, DefaultAutosave),
     SettingsObj(TRUE, TRUE, << Col(C9id, <<"nine">>, 300) >>, "int", IntField(30), "a.json"),
     SettingsObj(TRUE, TRUE, << Col(C1id, <<"yotei">>, 260), Col(C1id, <<"memo">>, 260) >>,
                 "int", NoField, "")}

\* the state __init__ has assigned when it reaches "self._load_settings()"
InitBootFrom(S, D, A) ==
    /\ variant \in Variants
    /\ range_start = (IF variant = Code THEN Today - BootHalfSpan
                      ELSE Ymd2Ord(YearOf(Today), MonthOf(Today), 1))
    /\ range_end = (IF variant = Code THEN Today + BootHalfSpan
                    ELSE Ymd2Ord(YearOf(Today), MonthOf(Today), 1) + SpanDays)
    /\ current_anchor_date = (IF variant = Code THEN Today
                              ELSE Ymd2Ord(YearOf(Today), MonthOf(Today), 1))
    /\ columns = DefaultColumns
    /\ settings_cols = DefaultColumns
    /\ settings_file \in S
    /\ settings_auto \in A
    /\ autosave_timer = TimerNew
    /\ cells = EmptyMap
    /\ dirty = FALSE
    /\ autosave_path = DefaultAutosave
    /\ expand_each = ExpandDefault
    /\ uuid_n = 0
    /\ table_rows = 0
    /\ table_start = range_start
    /\ table_cols = {}
    /\ table_built = FALSE
    /\ sb_value = 0
    /\ slider_down = FALSE
    /\ now_ms = 0
    /\ last_user_scroll_ms = -1
    /\ files \in [Paths -> D]
    /\ tmpfiles = [p \in Paths |-> AbsentFile]
    /\ pc = Boot
    /\ pc_path = DefaultAutosave
    /\ crashed = FALSE
    /\ ev = Ev("init", TRUE, 0, 0)

InitBoot == InitBootFrom(BootSettings, BootDocs, {AutoDefault})

\* the observation of __init__: the paths _load_json_path was called with,
\* the path it returned True for ("" when for none) and the columns
\* _apply_settings_boot assigned
EvBoot(ok, a, tried, loaded, boot_cols) ==
    [op |-> "startup", ok |-> ok, ext_user |-> a.ext_user, ext_prog |-> a.ext_prog,
     tried |-> tried, loaded |-> loaded, boot_cols |-> boot_cols]

\* __init__ from "self.settings = self._load_settings()" to its end: the
\* settings, the candidates of _load_last_autosave, the first drawing of the
\* table and _apply_autosave_settings; an exception leaves the constructor
Startup ==
    /\ pc = Boot /\ ~crashed
    /\ \E s \in {LoadSettings(settings_file)} :
       \E b \in {ApplySettingsBoot(s)} :
       IF b.exc
       THEN /\ crashed' = TRUE
            /\ pc' = Idle
            /\ ev' = EvBoot(FALSE, [ext_user |-> 0, ext_prog |-> 0], <<>>, "", b.columns)
            /\ UNCHANGED << variant, settings_auto, autosave_timer, winvars, columns, settings_cols, settings_file, cells,
                            dirty, autosave_path, expand_each, uuid_n, tablevars, clockvars,
                            fsvars, pc_path >>
       ELSE \E ll \in {LoadLastAutosave(
                            (IF s.path # "" THEN <<s.path>> ELSE <<>>) \o <<DefaultAutosave>>,
                            files,
                            [columns |-> b.columns, cells |-> cells,
                             range_start |-> range_start, range_end |-> range_end,
                             dirty |-> dirty, uuid_n |-> uuid_n],
                            <<>>)} :
            \E st \in {ll.st} :
            \E a0 \in {[ViewOf(st.columns, last_user_scroll_ms)
                           EXCEPT !.range_start = st.range_start,
                                  !.range_end = st.range_end, !.each = b.each]} :
            \E a \in {IF variant = Code THEN SetViewAnchor(a0, Today)
                      ELSE RebuildRange(a0, st.range_start, st.range_end, FALSE, FALSE)} :
            \E cfg \in {IF settings_file.kind = "obj" THEN settings_auto ELSE AutoDefault} :
            \E t \in {IF a.exc THEN [exc |-> FALSE, timer |-> autosave_timer]
                      ELSE ApplyAutosaveSettings(cfg, autosave_timer)} :
               /\ settings_auto' = cfg
               /\ autosave_timer' = t.timer
               /\ columns' = st.columns
               /\ cells' = st.cells
               /\ uuid_n' = st.uuid_n
               /\ dirty' = FALSE
               /\ expand_each' = b.each
               /\ settings_cols' = b.columns
               /\ autosave_path' = b.path
               /\ current_anchor_date' =
                     IF variant = Code THEN Today ELSE current_anchor_date
               /\ StoreView([a EXCEPT !.exc = a.exc \/ t.exc])
               /\ pc' = Idle
               /\ ev' = EvBoot(~a.exc /\ ~t.exc, a, ll.tried, ll.loaded, b.columns)
               /\ UNCHANGED << variant, settings_file, clockvars, fsvars, pc_path >>

\* the program is launched again after closeEvent: a new CalendarApp is
\* constructed over the files and the settings document the last run left;
\* shut_cols is the column list that run ended with
Relaunch ==
    /\ pc.op = "closed" /\ ~crashed
    /\ range_start' = (IF variant = Code THEN Today - BootHalfSpan
                       ELSE Ymd2Ord(YearOf(Today), MonthOf(Today), 1))
    /\ range_end' = (IF variant = Code THEN Today + BootHalfSpan
                     ELSE Ymd2Ord(YearOf(Today), MonthOf(Today), 1) + SpanDays)
    /\ current_anchor_date' = (IF variant = Code THEN Today
                               ELSE Ymd2Ord(YearOf(Today), MonthOf(Today), 1))
    /\ columns' = DefaultColumns
    /\ settings_cols' = DefaultColumns
    /\ autosave_timer' = TimerNew
    /\ cells' = EmptyMap
    /\ dirty' = FALSE
    /\ autosave_path' = DefaultAutosave
    /\ expand_each' = ExpandDefault
    /\ table_rows' = 0
    /\ table_start' = range_start'
    /\ table_cols' = {}
    /\ table_built' = FALSE
    /\ sb_value' = 0
    /\ slider_down' = FALSE
    /\ now_ms' = 0
    /\ last_user_scroll_ms' = -1
    /\ pc' = Boot
    /\ pc_path' = DefaultAutosave
    /\ ev' = [op |-> "relaunch", ok |-> TRUE, ext_user |-> 0, ext_prog |-> 0,
              shut_cols |-> columns]
    /\ UNCHANGED << variant, settings_auto, settings_file, uuid_n, fsvars, crashed >>

-----------------------------------------------------------------------------
(* set_view_anchor as an operation of its own                                *)

\* the dates the view is anchored at
AnchorDates == {Ymd2Ord(2025, 1, 1)}

\* set_view_anchor(anchor) of Code and Sched; Memo, which has no such
\* method, makes the same call rebuild_range(start, start + 61 days, False)
\* with the first day of a month
SetViewAnchorAt(anchor) ==
    /\ Running
    /\ anchor \in AnchorDates
    /\ variant = Memo => DayOf(anchor) = 1
    /\ \E a0 \in {ViewOf(columns, last_user_scroll_ms)} :
       \E a \in {SetViewAnchor(a0, anchor)} :
          /\ StoreView(a)
          /\ current_anchor_date' = IF variant = Memo THEN current_anchor_date ELSE anchor
          /\ ev' = [op |-> "anchor", ok |-> ~a.exc, ext_user |-> a.ext_user,
                    ext_prog |-> a.ext_prog, anchor |-> anchor]
    /\ UNCHANGED << variant, settings_auto, autosave_timer, columns, settings_cols, settings_file, cells, dirty,
                    autosave_path, expand_each, uuid_n, clockvars, files, tmpfiles,
                    pc, pc_path >>

-----------------------------------------------------------------------------
(* _write_json and the handlers that call it                                 *)

\* the document _write_json serializes: Code writes columns and cells; Sched
\* and Memo add the year and month of range_start
WriteDoc ==
    ObjDoc(TRUE, TRUE, RawOfCols(columns), TRUE, TRUE, cells,
           IF variant = Code THEN NoField ELSE IntField(YearOf(range_start)),
           IF variant = Code THEN NoField ELSE IntField(MonthOf(range_start)))

\* open(..., "w") succeeded: Code has created the ".tmp" sibling, Sched and
\* Memo have truncated the destination itself
OpenedForWrite(op, p) ==
    /\ pc' = Pc(op, "dump")
    /\ pc_path' = p
    /\ IF variant = Code
       THEN tmpfiles' = [tmpfiles EXCEPT ![p] = PartialFile] /\ UNCHANGED files
       ELSE files' = [files EXCEPT ![p] = PartialFile] /\ UNCHANGED tmpfiles

\* json.dump completed: Code renames the sibling over the destination
Dumped(p) ==
    IF variant = Code
    THEN /\ files' = [files EXCEPT ![p] = WriteDoc]
         /\ tmpfiles' = [tmpfiles EXCEPT ![p] = AbsentFile]
    ELSE /\ files' = [files EXCEPT ![p] = WriteDoc]
         /\ UNCHANGED tmpfiles

\* _autosave_tick with "self._dirty = False" left out
TickClearsNever(ok) == FALSE

\* _autosave_tick reaches "self._dirty = False" when _write_json returned
\* without raising, and Code's _write_json never raises
TickClears(ok) == variant = Code \/ ok

\* what the caller does once _write_json(p) has returned (or, in Sched and
\* Memo, has raised): ok tells whether the document was written
Returned(op, p, ok) ==
    /\ pc_path' = p
    /\ ev' = Ev(op, ok, 0, 0)
    /\ IF op = "tick"
       THEN /\ dirty' = IF TickClears(ok) THEN FALSE ELSE dirty
            /\ pc' = Idle
            /\ UNCHANGED << autosave_path, settings_cols, settings_file, crashed >>
       ELSE IF op = "save"
       THEN IF variant # Code /\ ~ok
            THEN /\ crashed' = TRUE
                 /\ pc' = Idle
                 /\ UNCHANGED << autosave_path, settings_cols, settings_file, dirty >>
            ELSE /\ autosave_path' = p
                 /\ settings_cols' = columns
                 /\ settings_file' = SaveSettings(columns, p, expand_each)
                 /\ dirty' = FALSE
                 /\ pc' = Idle
                 /\ UNCHANGED crashed
       ELSE /\ pc' = Pc("closed", "closed")
            /\ UNCHANGED << autosave_path, settings_cols, settings_file, dirty, crashed >>

\* _write_json failed: Code reports it in a message box and returns; in Sched
\* and Memo the exception reaches the caller
WriteFailed(op, p) ==
    IF variant = Code
    THEN /\ pc' = Pc(op, "warn")
         /\ pc_path' = p
         /\ ev' = Ev(op, FALSE, 0, 0)
         /\ UNCHANGED << autosave_path, settings_cols, settings_file, dirty, crashed >>
    ELSE Returned(op, p, FALSE)

appvars == << variant, settings_auto, autosave_timer, winvars, columns, cells, expand_each, uuid_n, tablevars, clockvars >>

\* _autosave_tick finds nothing to write
TickSkip ==
    /\ Running
    /\ autosave_timer.active
    /\ ~dirty
    /\ ev' = Ev("tick_skip", TRUE, 0, 0)
    /\ UNCHANGED << appvars, settings_cols, settings_file, dirty, autosave_path, fsvars, pc, pc_path, crashed >>

\* _autosave_tick with the dirty flag set enters _write_json(autosave_path)
TickOpen ==
    /\ Running
    /\ autosave_timer.active
    /\ dirty
    /\ OpenedForWrite("tick", autosave_path)
    /\ UNCHANGED << appvars, settings_cols, settings_file, dirty, autosave_path, crashed, ev >>

TickOpenFails ==
    /\ Running
    /\ autosave_timer.active
    /\ dirty
    /\ WriteFailed("tick", autosave_path)
    /\ UNCHANGED << appvars, fsvars >>

\* save_json with the path the file dialog returned
SaveOpen(p) ==
    /\ Running
    /\ p \in UserPaths
    /\ OpenedForWrite("save", p)
    /\ UNCHANGED << appvars, settings_cols, settings_file, dirty, autosave_path, crashed, ev >>

SaveOpenFails(p) ==
    /\ Running
    /\ p \in UserPaths
    /\ WriteFailed("save", p)
    /\ UNCHANGED << appvars, fsvars >>

\* closeEvent: _save_settings, then the final write when dirty
CloseClean ==
    /\ Running
    /\ ~dirty
    /\ pc' = Pc("closed", "closed")
    /\ settings_cols' = columns
    /\ settings_file' = SaveSettings(columns, autosave_path, expand_each)
    /\ ev' = Ev("close_skip", TRUE, 0, 0)
    /\ UNCHANGED << appvars, dirty, autosave_path, fsvars, pc_path, crashed >>

CloseOpen ==
    /\ Running
    /\ dirty
    /\ OpenedForWrite("close", autosave_path)
    /\ settings_cols' = columns
    /\ settings_file' = SaveSettings(columns, autosave_path, expand_each)
    /\ UNCHANGED << appvars, dirty, autosave_path, crashed, ev >>

\* json.dump runs to its end inside _write_json
DumpDone ==
    /\ pc.stage = "dump"
    /\ Dumped(pc_path)
    /\ Returned(pc.op, pc_path, TRUE)
    /\ UNCHANGED appvars

\* json.dump stops part-way (disk full, I/O error)
DumpFails ==
    /\ pc.stage = "dump"
    /\ WriteFailed(pc.op, pc_path)
    /\ UNCHANGED << appvars, fsvars >>

\* the user closes Code's "save failed" message box; _write_json returns
DismissWarning ==
    /\ pc.stage = "warn"
    /\ Returned(pc.op, pc_path, FALSE)
    /\ UNCHANGED << appvars, fsvars >>

\* the timer fires while Code's "save failed" message box is open: the box
\* runs an event loop of its own (QMessageBox.warning), which delivers the
\* timeout to _autosave_tick inside the handler that is in _write_json. With
\* the dirty flag set the tick runs a second _write_json(autosave_path), to
\* its end (ok) or to a failure whose box the user closes at once, and
\* clears the flag
TickDuringWarning(ok) ==
    /\ pc.stage = "warn" /\ ~crashed
    /\ autosave_timer.active
    /\ IF dirty
       THEN /\ IF ok THEN Dumped(autosave_path)
                     ELSE /\ tmpfiles' = [tmpfiles EXCEPT ![autosave_path] = PartialFile]
                          /\ UNCHANGED files
            /\ dirty' = FALSE
       ELSE /\ ok
            /\ UNCHANGED << fsvars, dirty >>
    /\ ev' = [op |-> "tick_nested", ok |-> ok, ext_user |-> 0, ext_prog |-> 0,
              during |-> pc.op, wrote |-> dirty]
    /\ UNCHANGED << appvars, settings_cols, settings_file, autosave_path, pc, pc_path, crashed >>

-----------------------------------------------------------------------------
(* _build_row: the label and the colour of the date cell                     *)

\* date.weekday(): 0 for Monday to 6 for Sunday; the ordinal 1 is a Monday
Weekday(d) == (d + 6) % 7

\* JP_WEEK, each character written as the day it names: Code and Sched list
\* them from Monday ("月") on, Memo from Sunday ("日") on
JP_WEEK ==
    IF variant = Memo THEN <<"Sun", "Mon", "Tue", "Wed", "Thu", "Fri", "Sat">>
    ELSE <<"Mon", "Tue", "Wed", "Thu", "Fri", "Sat", "Sun">>

\* the date cell _build_row makes for the date d: JP_WEEK[dt.weekday()] in
\* the label, is_sat and is_sun for the colour
DateCell(d) ==
    [month |-> MonthOf(d), day |-> DayOf(d), week |-> JP_WEEK[Weekday(d) + 1],
     is_sat |-> (Weekday(d) = 5), is_sun |-> (Weekday(d) = 6)]

\* the date cells of the rows of the table
DateCells ==
    [r \in 0 .. (IF table_built THEN table_rows - 1 ELSE -1) |-> DateCell(table_start + r)]

-----------------------------------------------------------------------------
(* ensure_date_visible as an operation of its own                            *)

\* the dates ensure_date_visible is called with: in the start window, one
\* and three chunks before it, one and two chunks after it
EnsureTargets ==
    {Today + 20, Today - 50, Today - 150, Today + 100, Today + 170}

\* ensure_date_visible(target), as SearchDialog._jump_and_close of Memo and
\* on_applied of Code call it; s0 and e0 are the window it found
EnsureVisibleAt(target) ==
    /\ Running
    /\ target \in EnsureTargets
    /\ table_rows <= MaxRows
    /\ Today - range_start <= MaxDrift /\ range_start - Today <= MaxDrift
    /\ \E a0 \in {ViewOf(columns, last_user_scroll_ms)} :
       \E a \in {EnsureDateVisible(a0, target)} :
          /\ StoreView(a)
          /\ ev' = [op |-> "ensure", ok |-> ~a.exc, ext_user |-> a.ext_user,
                    ext_prog |-> a.ext_prog, target |-> target,
                    s0 |-> range_start, e0 |-> range_end]
    /\ UNCHANGED << variant, settings_auto, autosave_timer, current_anchor_date, columns, settings_cols,
                    settings_file, cells, dirty,
                    autosave_path, expand_each, uuid_n, clockvars, files, tmpfiles,
                    pc, pc_path >>

-----------------------------------------------------------------------------
(* The extensions as operations of their own                                 *)

\* the sizes an extension is called with: expand_each and the chunk of
\* ensure_date_visible
ExtendSizes == ExpandChoices \cup {EnsureChunk}

\* the date a key of cells is the strftime text of, 0 when it is of none
KeyOrd(k) == IF k.wf /\ DateValid(k.y, k.m, k.d) THEN Ymd2Ord(k.y, k.m, k.d) ELSE 0

\* _build_row: the text the editor of column c in the row of date o is
\* given, self.cells[key][col["id"]] when the key of the date is present;
\* ko pairs every key of cs with its date
TextAt(cs, ko, o, c) ==
    LET ks == {q[2] : q \in {q \in ko : q[1] = o}}
    IN IF ks = {} THEN ""
       ELSE LET k == CHOOSE k \in ks : TRUE
            IN IF cs[k].isdict /\ c \in DOMAIN cs[k].f THEN cs[k].f[c].s ELSE ""

\* what the table shows at the row index of date d: the date the row was
\* built for and the texts of its editors
RowShown(a, cs, ko, d) ==
    LET idx == d - a.range_start
    IN IF a.table_built /\ idx >= 0 /\ idx < a.table_rows
       THEN [date |-> a.table_start + idx,
             texts |-> [c \in a.table_cols |-> TextAt(cs, ko, a.table_start + idx, c)]]
       ELSE [date |-> 0, texts |-> <<>>]

\* what the table shows at the row indexes of the dates from s to e
RowsShown(a, cs, s, e) ==
    Then({<<KeyOrd(k), k>> : k \in DOMAIN cs},
         LAMBDA ko : [d \in s..e |-> RowShown(a, cs, ko, d)])

\* the table of the current state
TableNow ==
    [table_built |-> table_built, range_start |-> range_start, table_rows |-> table_rows,
     table_start |-> table_start, table_cols |-> table_cols]

\* the observation of an extension: the window, the top visible date and the
\* rows as they were before it (before the forward extension, when op is the
\* backward extension that follows one of the same size and kind)
EvExt(op, n, auto, a, pre) ==
    [op |-> op, ok |-> ~a.exc, ext_user |-> 0, ext_prog |-> a.ext_prog, n |-> n,
     auto |-> auto, after_fwd |-> pre.after_fwd, s0 |-> pre.s0, e0 |-> pre.e0, rows0 |-> pre.rows0]

\* the window and its rows in the current state
PreNow ==
    [after_fwd |-> FALSE, s0 |-> range_start, e0 |-> range_end,
     rows0 |-> RowsShown(TableNow, cells, range_start, range_end)]

\* _append_days(n), or Code's _append_days_auto(n)
ExtendForward(n, auto) ==
    /\ Running
    /\ n \in ExtendSizes
    /\ auto => variant = Code
    /\ table_rows <= MaxRows
    /\ Today - range_start <= MaxDrift /\ range_start - Today <= MaxDrift
    /\ \E a0 \in {ViewOf(columns, last_user_scroll_ms)} :
       \E a \in {IF auto THEN AppendDaysAuto(a0, n) ELSE AppendDays(a0, n)} :
          /\ StoreView(a)
          /\ ev' = EvExt("extend_fwd", n, auto, a, PreNow)
    /\ UNCHANGED << variant, settings_auto, autosave_timer, current_anchor_date, columns, settings_cols, settings_file, cells, dirty,
                    autosave_path, expand_each, uuid_n, clockvars, files, tmpfiles,
                    pc, pc_path >>

\* _prepend_days(n), or Code's _prepend_days_auto(n)
ExtendBackward(n, auto) ==
    /\ Running
    /\ n \in ExtendSizes
    /\ auto => variant = Code
    /\ table_rows <= MaxRows + EnsureChunk
    /\ Today - range_start <= MaxDrift /\ range_start - Today <= MaxDrift
    /\ \E a0 \in {ViewOf(columns, last_user_scroll_ms)} :
       \E a \in {IF auto THEN PrependDaysAuto(a0, n) ELSE PrependDays(a0, n)} :
       \E pre \in {IF ev.op = "extend_fwd" /\ ev.ok /\ ev.n = n /\ ev.auto = auto
                   THEN [after_fwd |-> TRUE, s0 |-> ev.s0, e0 |-> ev.e0, rows0 |-> ev.rows0]
                   ELSE PreNow} :
          /\ StoreView(a)
          /\ ev' = EvExt("extend_back", n, auto, a, pre)
    /\ UNCHANGED << variant, settings_auto, autosave_timer, current_anchor_date, columns, settings_cols, settings_file, cells, dirty,
                    autosave_path, expand_each, uuid_n, clockvars, files, tmpfiles,
                    pc, pc_path >>

-----------------------------------------------------------------------------

Next ==
    \/ \E v \in ScrollStops(table_rows) : UserScroll(v)
    \/ AdvanceTime
    \/ \E t \in JumpTargets : JumpToDate(t)
    \/ JumpToday
    \/ \E k \in DOMAIN cells : SearchJump(k)
    \/ \E d \in EditDates, cid \in EditCols, txt \in EditTexts : EditCell(d - table_start, cid, txt)
    \/ \E i \in DOMAIN columns : RemoveSelectedCol(i)
    \/ \E gone \in {{}} \cup {{i} : i \in DOMAIN settings_cols}, n \in ExpandChoices :
          SettingsApply(gone, n, SpinShown(settings_auto.interval_sec))
    \/ \E p \in OpenPaths : LoadJson(p)
    \/ TickSkip
    \/ TickOpen
    \/ TickOpenFails
    \/ \E p \in UserPaths : SaveOpen(p)
    \/ \E p \in UserPaths : SaveOpenFails(p)
    \/ CloseClean
    \/ CloseOpen
    \/ DumpDone
    \/ DumpFails
    \/ DismissWarning
    \/ \E ok \in BOOLEAN : TickDuringWarning(ok)
    \/ \E n \in ExtendSizes, auto \in BOOLEAN : ExtendForward(n, auto)
    \/ \E n \in ExtendSizes, auto \in BOOLEAN : ExtendBackward(n, auto)

Spec == Init /\ [][Next]_vars

\* the window and the scroll bar alone: the handlers that scroll, jump,
\* rebuild or load, over the files as they were found at startup
NextView ==
    \/ \E v \in ScrollStops(table_rows) : UserScroll(v)
    \/ AdvanceTime
    \/ \E t \in JumpTargets : JumpToDate(t)
    \/ JumpToday
    \/ \E k \in DOMAIN cells : SearchJump(k)
    \/ \E n \in ExpandChoices : SettingsApply({}, n, SpinShown(settings_auto.interval_sec))
    \/ \E p \in OpenPaths : LoadJson(p)

SpecView == Init /\ [][NextView]_vars

\* the document and the files alone: edits, column deletion, loads and the
\* three callers of _write_json, over the window as startup built it
NextStore ==
    \/ \E d \in EditDates, cid \in EditCols, txt \in EditTexts : EditCell(d - table_start, cid, txt)
    \/ \E p \in OpenPaths : LoadJson(p)
    \/ TickSkip
    \/ TickOpen
    \/ TickOpenFails
    \/ \E p \in UserPaths : SaveOpen(p)
    \/ \E p \in UserPaths : SaveOpenFails(p)
    \/ CloseClean
    \/ CloseOpen
    \/ DumpDone
    \/ DumpFails
    \/ DismissWarning
    \/ \E ok \in BOOLEAN : TickDuringWarning(ok)

SpecStore == Init /\ [][NextStore]_vars

\* the columns and the records alone: edits, column deletion and loads
NextCols ==
    \/ \E d \in EditDates, cid \in EditCols, txt \in EditTexts : EditCell(d - table_start, cid, txt)
    \/ \E i \in DOMAIN columns : RemoveSelectedCol(i)
    \/ \E gone \in {{}} \cup {{i} : i \in DOMAIN settings_cols}, n \in ExpandChoices :
          SettingsApply(gone, n, SpinShown(settings_auto.interval_sec))
    \/ \E p \in OpenPaths : LoadJson(p)

SpecCols == Init /\ [][NextCols]_vars

\* the extensions alone, from the windows and scroll positions that edits,
\* user scrolls and loads leave
NextExtend ==
    \/ \E n \in ExtendSizes, auto \in BOOLEAN : ExtendForward(n, auto)
    \/ \E n \in ExtendSizes, auto \in BOOLEAN : ExtendBackward(n, auto)
    \/ \E v \in ScrollStops(table_rows) : UserScroll(v)
    \/ \E d \in EditDates, cid \in EditCols, txt \in EditTexts : EditCell(d - table_start, cid, txt)
    \/ \E p \in OpenPaths : LoadJson(p)

SpecExtend == Init /\ [][NextExtend]_vars

\* the table under the operations that build it: anchoring, jumps,
\* extensions, user scrolls, edits and loads
NextTable ==
    \/ \E anchor \in AnchorDates : SetViewAnchorAt(anchor)
    \/ \E t \in JumpTargets : JumpToDate(t)
    \/ \E n \in ExtendSizes, auto \in BOOLEAN : ExtendForward(n, auto)
    \/ \E n \in ExtendSizes, auto \in BOOLEAN : ExtendBackward(n, auto)
    \/ \E v \in ScrollStops(table_rows) : UserScroll(v)
    \/ \E d \in EditDates, cid \in EditCols, txt \in EditTexts : EditCell(d - table_start, cid, txt)
    \/ \E p \in UserPaths \cup {"year0.json"} : LoadJson(p)

SpecTable == Init /\ [][NextTable]_vars

\* the launch, then the handlers that change the columns, the edits, the
\* loads and the shutdown
NextBoot ==
    \/ Startup
    \/ \E d \in EditDates, cid \in EditCols, txt \in EditTexts : EditCell(d - table_start, cid, txt)
    \/ \E i \in DOMAIN columns : RemoveSelectedCol(i)
    \/ \E gone \in {{}} \cup {{i} : i \in DOMAIN settings_cols}, n \in ExpandChoices :
          SettingsApply(gone, n, SpinShown(settings_auto.interval_sec))
    \/ \E p \in OpenPaths : LoadJson(p)
    \/ CloseClean
    \/ CloseOpen
    \/ DumpDone

SpecBoot == InitBoot /\ [][NextBoot]_vars

\* the autosave timer: startup with every stored interval, then the controls
IntervalValues == {-4, 0, 1, 2, 3, 4, 10, 2147484}
BootAuto == [enabled : BOOLEAN, interval_sec : IntervalValues]
TimerSettings == {SettingsAbsent,
                  SettingsObj(TRUE, TRUE, DefaultColumns, "int", NoField, DefaultAutosave)}
InitTimer == InitBootFrom(TimerSettings, {AbsentFile}, BootAuto)

NextTimer ==
    \/ Startup
    \/ \E on \in BOOLEAN : OnAutosaveToggle(on)
    \/ \E v \in SpinStops : OnIntervalChange(v)
    \/ \E sec \in SpinStops, n \in ExpandChoices : SettingsApply({}, n, sec)
    \/ TickSkip

SpecTimer == InitTimer /\ [][NextTimer]_vars

\* a run, its shutdown and the next run: edits, the autosave tick, the column
\* controls of the settings dialog, closeEvent, and the launch that follows;
\* every write runs to its end
NextRestart ==
    \/ \E d \in EditDates, cid \in EditCols, txt \in EditTexts : EditCell(d - table_start, cid, txt)
    \/ TickSkip
    \/ TickOpen
    \/ \E i \in DOMAIN columns : RemoveSelectedCol(i)
    \/ \E gone \in {{}} \cup {{i} : i \in DOMAIN settings_cols}, n \in ExpandChoices :
          SettingsApply(gone, n, SpinShown(settings_auto.interval_sec))
    \/ CloseClean
    \/ CloseOpen
    \/ DumpDone
    \/ Relaunch
    \/ Startup

SpecRestart == Init /\ [][NextRestart]_vars

\* ensure_date_visible from the windows and scroll positions that jumps, user
\* scrolls and edits leave
NextEnsure ==
    \/ \E t \in EnsureTargets : EnsureVisibleAt(t)
    \/ \E t \in JumpTargets : JumpToDate(t)
    \/ \E v \in ScrollStops(table_rows) : UserScroll(v)
    \/ \E d \in EditDates, cid \in EditCols, txt \in EditTexts : EditCell(d - table_start, cid, txt)

SpecEnsure == Init /\ [][NextEnsure]_vars

\* edits, the autosave timer, saves and the shutdown, with the scheduling of
\* the event loop: the QTimer started by _apply_autosave_settings keeps
\* firing and, of the writes it attempts again and again, one opens its file
\* and one completes at last; the modal message box of a failed write is
\* closed
NextLive ==
    \/ \E d \in EditDates, cid \in EditCols, txt \in EditTexts : EditCell(d - table_start, cid, txt)
    \/ TickSkip
    \/ TickOpen
    \/ TickOpenFails
    \/ \E p \in UserPaths : SaveOpen(p)
    \/ CloseClean
    \/ CloseOpen
    \/ DumpDone
    \/ DumpFails
    \/ DismissWarning
    \/ \E ok \in BOOLEAN : TickDuringWarning(ok)

SpecLive ==
    /\ Init
    /\ [][NextLive]_vars
    /\ SF_vars(TickOpen)
    /\ SF_vars(DumpDone)
    /\ WF_vars(DismissWarning)

-----------------------------------------------------------------------------
(* Properties                                                                *)

\* C1: in Code, a change of the scroll value made by the program (a jump, a
\* search jump, scroll_to_date, the scroll after an extension) never makes
\* the scroll handler extend the window
C1_ProgrammaticScrollNeverExtends ==
    (variant = Code) => (ev.ext_prog = 0)

\* C2: in Code, a load for which _load_json_path returns False leaves the
\* columns, the cells, range_start, range_end and the dirty flag as they were
C2_FailedLoadAdoptsNothing ==
    [][(variant = Code /\ (\E p \in OpenPaths : LoadJson(p)) /\ ~ev'.ok)
          => UNCHANGED << columns, cells, range_start, range_end, dirty >>]_vars

\* C3: in every variant, after an autosave tick whose write failed the
\* session is running and the dirty flag is still set
C3_FailedTickKeepsDirty ==
    (ev.op = "tick" /\ ~ev.ok /\ pc = Idle) => (dirty /\ ~crashed)

\* C4: a tick writes only with the dirty flag set and only to the autosave
\* path, a tick that writes nothing found the flag clear, and after a tick
\* whose write succeeded the flag is clear and the autosave path holds the
\* document
C4_TickWritesIffDirty ==
    /\ (pc.op = "tick" /\ pc.stage = "dump") => (dirty /\ pc_path = autosave_path)
    /\ (ev.op = "tick_skip") => ~dirty
    /\ (ev.op = "tick" /\ ev.ok /\ pc = Idle)
          => (~dirty /\ files[autosave_path] = WriteDoc)

C4_Witness ==
    /\ ev.op = "tick" /\ ev.ok /\ pc = Idle
    /\ Key(2025, 2, 20) \in DOMAIN cells
    /\ files[autosave_path] = WriteDoc

\* C5: at every point of a write, failed or not, the destination is absent
\* or a complete document, never a truncated one
C5_DestinationNeverPartial ==
    \A p \in Paths : files[p].kind # "partial"

\* the record e without its entries for the columns in gone
WithoutCols(e, gone) ==
    IF e.isdict THEN DictEntry([c \in (DOMAIN e.f) \ gone |-> e.f[c]]) ELSE e

\* C6: in every variant, deleting a column removes its entry from every
\* record of cells and leaves every other entry as it was
C6_DeleteCascadesIntoCells ==
    [][(ev'.op = "delcol" /\ columns' # columns)
          => /\ DOMAIN cells' = DOMAIN cells
             /\ \A k \in DOMAIN cells :
                   cells'[k] = WithoutCols(cells[k], ColIds(columns) \ ColIds(columns'))]_vars

\* C7: after a load that succeeded, saving at once and loading the saved
\* document gives the cells the first load gave
C7_RoundTrip ==
    (ev.op = "load" /\ ev.ok /\ ~crashed)
       => /\ LoadJsonPath(WriteDoc, LoadState).ok
          /\ LoadJsonPath(WriteDoc, LoadState).st.cells = cells

C7_Witness ==
    /\ variant = Code /\ ev.op = "load" /\ ev.ok /\ ~crashed
    /\ K1 \in DOMAIN cells /\ cells[K1].f[C1id] = JStr("5")
    /\ K2 \in DOMAIN cells /\ BadKey \notin DOMAIN cells

\* C8: in every variant a jump to a date, to today or to a search hit, and a
\* load, leave the window [target, target + 61 days]
C8_JumpGivesWindowFromTarget ==
    [][/\ \A t \in JumpTargets :
             JumpToDate(t) => (crashed' \/ (/\ range_start' = JumpTarget(t)
                                             /\ range_end' = JumpTarget(t) + SpanDays))
       /\ JumpToday => (crashed' \/ (range_start' = Today /\ range_end' = Today + SpanDays))
       /\ \A k \in DOMAIN cells :
             SearchJump(k) =>
                (crashed' \/ (/\ range_start' = Ymd2Ord(k.y, k.m, k.d)
                              /\ range_end' = Ymd2Ord(k.y, k.m, k.d) + SpanDays))
       /\ \A p \in OpenPaths :
             (LoadJson(p) /\ ev'.ok) => (crashed' \/ range_end' = range_start' + SpanDays)]_vars

\* C9: range_start <= range_end in every reachable state
C9_RangeOrdered ==
    range_start <= range_end

\* a step that rebuilds the window from a new target: set_view_anchor, Memo's
\* month picker, a load that succeeded
FullRebuildStep ==
    \/ \E t \in JumpTargets : JumpToDate(t)
    \/ JumpToday
    \/ (variant # Memo /\ \E k \in DOMAIN cells : SearchJump(k))
    \/ ((\E p \in OpenPaths : LoadJson(p)) /\ ev'.ok)

\* C10: every step that is not a full rebuild leaves range_start where it
\* was or earlier and range_end where it was or later
C10_WindowNeverShrinks ==
    [][FullRebuildStep \/ (range_start' <= range_start /\ range_end' >= range_end)]_vars

\* the date of the top visible row, as _prepend_days computes it
TopDate == range_start + sb_value

\* what the table of the next state shows at the row indexes of the dates of
\* this state's window
RowsShownAfter ==
    RowsShown([table_built |-> table_built', range_start |-> range_start',
               table_rows |-> table_rows', table_start |-> table_start',
               table_cols |-> table_cols'], cells', range_start, range_end)

\* C11: an extension forward by n adds n to range_end and keeps range_start,
\* an extension backward by n takes n from range_start and keeps range_end;
\* both keep the cells, the columns, the dirty flag and what every row that
\* existed shows
C11_ExtendFrame ==
    [][\A n \in ExtendSizes, auto \in BOOLEAN :
         /\ (ExtendForward(n, auto) /\ ~crashed') =>
               /\ range_end' = range_end + n /\ range_start' = range_start
               /\ UNCHANGED << cells, columns, dirty >>
               /\ RowsShownAfter = ev'.rows0
         /\ (ExtendBackward(n, auto) /\ ~crashed') =>
               /\ range_start' = range_start - n /\ range_end' = range_end
               /\ UNCHANGED << cells, columns, dirty >>
               /\ RowsShownAfter = RowsShown(TableNow, cells, range_start, range_end)]_vars

\* C12: the date on the top visible row before an extension backward is on
\* the top visible row after it, in every variant
C12_PrependKeepsTopDate ==
    [][\A n \in ExtendSizes, auto \in BOOLEAN :
         (ExtendBackward(n, auto) /\ ~crashed' /\ table_rows > 0) => TopDate' = TopDate]_vars

\* C13: after _append_days(n) followed by _prepend_days(n) the window holds
\* every date it held before the two, and the row of each such date shows
\* the date and the texts it showed
C13_ForwardBackwardKeepsRows ==
    (ev.op = "extend_back" /\ ev.after_fwd /\ ~ev.auto /\ ev.ok /\ ~crashed) =>
        /\ range_start <= ev.s0 /\ range_end >= ev.e0
        /\ RowsShown(TableNow, cells, ev.s0, ev.e0) = ev.rows0

C13_Witness ==
    /\ ev.op = "extend_back" /\ ev.after_fwd /\ ~ev.auto /\ ev.ok /\ ~crashed
    /\ Key(2025, 2, 20) \in DOMAIN cells
    /\ ev.rows0[Ymd2Ord(2025, 2, 20)].texts[C1id] = "a"
    /\ range_start = ev.s0 - ev.n /\ sb_value > 0

\* C14: in Code, after a load that succeeded every key of cells is the text
\* of a calendar date (a key such as "bad-key" or "2025-02-30" is dropped),
\* and every record of the file under such a key is kept
C14_LoadDropsInvalidKeys ==
    (variant = Code /\ ev.op = "load" /\ ev.ok /\ ~crashed) =>
        /\ \A k \in DOMAIN cells : KeyOrd(k) # 0
        /\ \A k \in DOMAIN files[autosave_path].cells :
              (KeyOrd(k) # 0 /\ files[autosave_path].cells[k].isdict) => k \in DOMAIN cells

\* C15: in Code, a load of a document whose "columns" is not a list, is
\* empty or has no object among its items fails and leaves the columns as
\* they were; no load changes the columns to an empty list; after a load that
\* succeeded every column has an id, a title and a width in [80, 1200]
C15_ColumnsValidated ==
    [][\A p \in OpenPaths :
         (variant = Code /\ ev'.op = "load" /\ LoadJson(p)) =>
            /\ ( /\ FileAt(p).kind = "obj"
                 /\ FileAt(p).hascols
                 /\ \/ ~FileAt(p).colsislist
                    \/ \A i \in DOMAIN FileAt(p).cols : ~FileAt(p).cols[i].isdict )
               => (~ev'.ok /\ columns' = columns)
            /\ columns' # columns => columns' # <<>>
            /\ ev'.ok => \A i \in DOMAIN columns' :
                            /\ columns'[i].id # <<>>
                            /\ columns'[i].title # <<>>
                            /\ columns'[i].width \in WidthMin..WidthMax]_vars

C15_Witness ==
    /\ variant = Code /\ ev.op = "load" /\ ev.ok /\ ~crashed
    /\ Len(columns) = 3
    /\ columns[1].width = WidthMax
    /\ columns[2].width = WidthDefault
    /\ columns[3].title = <<"noid">> /\ columns[3].id # <<>>

\* C16: no two columns of the column list have the same id, in every state
\* the launch, the column handlers, the edits and the loads lead to
C16_DistinctIds ==
    \A i, j \in DOMAIN columns : i # j => columns[i].id # columns[j].id

\* C17: closeEvent with the dirty flag set writes the document once and
\* persists the settings after that write: the step that enters the final
\* write leaves the settings file alone, the step that completes it leaves
\* the document at the autosave path and the settings file written, and no
\* step follows the shutdown
C17_FinalWriteThenSettings ==
    [][/\ CloseOpen => settings_file' = settings_file
       /\ (pc.op = "close" /\ DumpDone) =>
             /\ files'[pc_path] = WriteDoc
             /\ settings_file' = SaveSettings(columns, autosave_path, expand_each)
       /\ pc.op = "closed" => UNCHANGED vars]_vars

\* C18: at launch the path of the settings is the first _load_json_path is
\* called with when a file is there; a second call is made only after the
\* first returned False; the path that loaded is the last one tried; and when
\* no candidate loaded, cells is empty and the columns are those the settings
\* gave (nothing of a candidate that failed is kept)
C18_StartupLoadOrder ==
    (ev.op = "startup" /\ ev.ok /\ ~crashed) =>
        LET sp == LoadSettings(settings_file).path
            n == Len(ev.tried)
        IN /\ (sp # "" /\ files[sp].kind # "absent") => (n >= 1 /\ ev.tried[1] = sp)
           /\ n >= 2 => ev.loaded # ev.tried[1]
           /\ n <= 2
           /\ ev.loaded # "" => (ev.tried[n] = ev.loaded /\ n >= 1)
           /\ ev.loaded = "" => (cells = EmptyMap /\ columns = ev.boot_cols)

\* C20: when the settings file is no usable settings document (text json.load
\* rejects, JSON that is no object, an object with a field of the wrong
\* type), the launch completes and the columns, the expansion size and the
\* autosave path the settings give are the defaults
C20_CorruptSettingsDefaults ==
    ( /\ ev.op = "startup"
      /\ \/ settings_file.kind \in {"garbage", "nonobj"}
         \/ /\ settings_file.kind = "obj"
            /\ settings_file.font = "bad" \/ (settings_file.hascols /\ ~settings_file.colslist) )
    => /\ ~crashed
       /\ ev.boot_cols = DefaultColumns
       /\ settings_cols = DefaultColumns
       /\ expand_each = ExpandDefault
       /\ autosave_path = DefaultAutosave

\* the document at the autosave path holds the records the program holds and
\* the dirty flag is clear
Persisted ==
    /\ ~dirty
    /\ files[autosave_path].kind = "obj"
    /\ files[autosave_path].cells = cells

\* C19: an edit leaves its text in cells and the dirty flag set; while the
\* program runs with its timer, an edit leads to a state where the document
\* at the autosave path holds the records of the program and the flag is
\* clear; and the final write of a shutdown with the flag set, once complete,
\* leaves the records of the program in that document
C19_EditsPersisted ==
    /\ [](ev.op = "edit" =>
            /\ dirty
            /\ \E d \in EditDates, cid \in EditCols :
                  /\ date_key(d) \in DOMAIN cells
                  /\ cells[date_key(d)].f[cid] \in EditTexts)
    /\ (ev.op = "edit") ~> (Persisted \/ pc.op \in {"close", "closed"} \/ crashed)
    /\ [][(pc.op = "close" /\ DumpDone) => files'[pc_path].cells = cells]_vars

C22_IntervalFloor ==
    (~crashed /\ autosave_timer.active)
       => /\ autosave_timer.interval =
                (IF settings_auto.interval_sec >= 3 THEN settings_auto.interval_sec ELSE 3) * 1000
          /\ settings_auto.interval_sec = 1 => autosave_timer.interval = 3000

C22_Witness ==
    /\ ev.op = "startup" /\ ~crashed
    /\ settings_auto.interval_sec = 1
    /\ autosave_timer = [active |-> TRUE, interval |-> 3000]

\* C23: in every variant, no scroll-position change caused by a running
\* extension starts a second extension: one call of an extension runs no
\* nested extension and moves exactly one end of the window, by its chunk
C23_ExtensionNotReentered ==
    [][\A n \in ExtendSizes, auto \in BOOLEAN :
         /\ (ExtendForward(n, auto) /\ ~crashed') =>
               /\ ev'.ext_prog = 0
               /\ range_end' - range_end = n /\ range_start' = range_start
         /\ (ExtendBackward(n, auto) /\ ~crashed') =>
               /\ ev'.ext_prog = 0
               /\ range_start - range_start' = n /\ range_end' = range_end]_vars

\* C24: whenever no handler is running, the table has one row per date of
\* the window, (range_end - range_start) + 1 of them, row r is the row of
\* range_start + r, and the row of a date shows, for every column of
\* columns, the text cells holds for the date and the column, "" when it
\* holds none; after any sequence of anchor, jump, extend, edit and load
C24_TableMaterializesWindow ==
    Running =>
       /\ table_built
       /\ table_rows = (range_end - range_start) + 1
       /\ \A d \in range_start .. range_end :
             LET row == RowsShown(TableNow, cells, d, d)[d]
                 ko == {<<KeyOrd(k), k>> : k \in DOMAIN cells}
             IN /\ row.date = d
                /\ row.texts = [c \in ColIds(columns) |-> TextAt(cells, ko, d, c)]

\* C25: from the moment save_json starts writing until it has finished, the
\* report of a failure included, no _autosave_tick handler runs
C25_NoTickDuringSave ==
    ev.op = "tick_nested" => ev.during # "save"

\* C26: after a change of the columns in the settings dialog, shutdown and a
\* launch over the same settings and autosave files, the columns in effect
\* after startup are the columns in effect at shutdown
C26_ColumnsSurviveRestart ==
    [][(ev.op = "relaunch" /\ Startup /\ ~crashed') => columns' = ev.shut_cols]_vars

\* C27: when the write of save_json fails, save_json leaves the dirty flag,
\* the autosave path in memory and the autosave path in the settings as
\* they were
C27_FailedSaveKeepsState ==
    [][(ev'.op = "save" /\ ~ev'.ok /\ pc' = Idle /\ pc_path' \in UserPaths)
          => /\ dirty' = dirty
             /\ autosave_path' = autosave_path
             /\ settings_file' = settings_file]_vars

\* C28: after startup the autosave path in effect is the path of the
\* document that was loaded; when the path of the settings failed to load
\* and the default path loaded, the autosave path is the default path
C28_AutosavePathIsLoaded ==
    (ev.op = "startup" /\ ev.ok /\ ~crashed /\ ev.loaded # "")
        => /\ autosave_path = ev.loaded
           /\ (ev.tried = <<"a.json", DefaultAutosave>>) => autosave_path = DefaultAutosave

\* C29: ensure_date_visible(target) returns with range_start <= target <=
\* range_end, after at most ceil(distance / 60) extensions, all at the one
\* end of the window the target lay beyond: that end has moved by so many
\* chunks of 60 days, the other end has not moved, and no other extension
\* has run
C29_EnsureVisibleBounded ==
    (ev.op = "ensure" /\ ~crashed) =>
        /\ ev.ok
        /\ range_start <= ev.target /\ ev.target <= range_end
        /\ ev.ext_user = 0 /\ ev.ext_prog = 0
        /\ IF ev.target < ev.s0
           THEN /\ range_end = ev.e0
                /\ (ev.s0 - range_start) % EnsureChunk = 0
                /\ ev.s0 - range_start <= EnsureChunk * (((ev.s0 - ev.target) + 59) \div 60)
           ELSE IF ev.target > ev.e0
           THEN /\ range_start = ev.s0
                /\ (range_end - ev.e0) % EnsureChunk = 0
                /\ range_end - ev.e0 <= EnsureChunk * (((ev.target - ev.e0) + 59) \div 60)
           ELSE range_start = ev.s0 /\ range_end = ev.e0

\* C30: in every variant the weekday character in the label of a date row
\* names the day of the week of the date, Monday for weekday() = 0 to Sunday
\* for weekday() = 6, so a row coloured as Saturday or as Sunday is labelled
\* Saturday or Sunday
C30_LabelIsWeekday ==
    \A r \in DOMAIN DateCells :
       LET d == table_start + r
           cell == DateCells[r]
       IN /\ cell.week = <<"Mon", "Tue", "Wed", "Thu", "Fri", "Sat", "Sun">>[Weekday(d) + 1]
          /\ cell.is_sat => cell.week = "Sat"
          /\ cell.is_sun => cell.week = "Sun"
          /\ d = Today => cell.week = "Fri"

====
